---- MODULE Spec2Model ----
(***************************************************************************)
(* github-commit-notifier: the polling loop of main.rs driving the         *)
(* change-detection engine of notifier.rs (GithubNotifier) over the        *)
(* conditional fetcher of github_client.rs (GithubClient).                 *)
(*                                                                         *)
(* One step of the model is the code a future runs between two suspension  *)
(* points (.await on a network call or on a contended mutex).  The remote  *)
(* API is the environment: every response is a nondeterministic choice     *)
(* from bounded sets.                                                      *)
(***************************************************************************)
EXTENDS Integers, Sequences, FiniteSets, TLC

VARIABLES
    \* ---- GithubNotifier fields (notifier.rs 13-20)
    orgs,            \* Vec<String>
    etags,           \* HashMap<url, etag>
    seen_commits,    \* HashMap<"repo/branch", sha>
    seen_prs,        \* HashMap<repo, HashSet<id>>
    seen_branches,   \* HashMap<repo, HashSet<name>>
    locks,           \* holder of each of the four tokio mutexes
    \* ---- main loop and check_all_repos
    mainPc,          \* "loop" | "orgs" | "fanout" | "sleep"
    cycle,           \* number of poll cycles started
    orgIdx,          \* index of the organization being fetched
    all_repos,       \* Vec<Repo> accumulated by check_all_repos
    nextIdx,         \* next element of the stream for_each_concurrent pulls
    result,          \* what the last check_all_repos returned
    \* ---- one check_repo future per repository
    task,
    \* ---- observation of the current cycle / of the history
    events,          \* notifications handed to send_notification this cycle
    calls,           \* get_commit / get_user calls that returned this cycle
    pre,             \* the dedup state when the cycle started
    prev,            \* last fresh collections processed in earlier cycles
    notified,        \* NewPullRequest notifications of the earlier cycles
    failed,          \* (key, sha) whose comparison-time get_commit ever failed
    baseline,        \* names stored by the seen-branch baseline of each repo
    returned         \* per URL, the validator of the last response that had one

vars == <<orgs, etags, seen_commits, seen_prs, seen_branches, locks, mainPc,
          cycle, orgIdx, all_repos, nextIdx, result, task, events, calls,
          pre, prev, notified, failed, baseline, returned>>

\* ------------------------------------------------------------------ bounds
MaxCycles == 2
MaxRepoCycles == 3
MaxBranchCycles == 4
MaxPullCycles == 3
MaxFanoutCycles == 1
MaxFirstCycles == 2

\* ------------------------------------------------------- program constants
CONCURRENT_REQUESTS == 10

\* ---------------------------------------------------- the remote API's data
OrgList == <<"o1", "o2">>
\* o3 is an organization with more repositories than CONCURRENT_REQUESTS
OrgRepos ==
    [o1 |-> <<"r1">>, o2 |-> <<"r2">>,
     o3 |-> <<"r1", "r2", "r3", "r4", "r5", "r6", "r7", "r8", "r9", "r10",
              "r11">>]
Repos == {"r1", "r2", "r3", "r4", "r5", "r6", "r7", "r8", "r9", "r10", "r11"}
BranchNames == {"main", "dev"}
Shas == {"A", "B"}
PrIds == {42, 43}
Titles == {"t1", "t2"}
EtagValues == {"e1", "e2"}
None == "none"
Free == "free"

\* models.rs: Branch {name, commit: Commit {sha}}
Branch == [name : BranchNames, sha : Shas]
\* models.rs: PullRequest {id, title, user}; html_url is carried unchanged
PullRequest == [id : PrIds, title : Titles, user : {"login"}]

SeqsUpTo(S, n) == UNION {[1..k -> S] : k \in 0..n}
DistinctNames(s) == \A i, j \in 1..Len(s) : i # j => s[i].name # s[j].name
DistinctIds(s) == \A i, j \in 1..Len(s) : i # j => s[i].id # s[j].id
\* The collections one page of the API can hold: no two branches of a
\* repository share a name, no two pull requests share an id.
BranchLists == {s \in SeqsUpTo(Branch, Cardinality(BranchNames)) : DistinctNames(s)}
PrLists == {s \in SeqsUpTo(PullRequest, Cardinality(PrIds)) : DistinctIds(s)}

\* What the API serves for each repository: the collections a successful
\* fetch of each URL can return (none: the endpoint never answers 200) and
\* the ETag headers it can carry.
Serves(branchLists, prLists, etagValues) ==
    [branchLists |-> branchLists, prLists |-> prLists, etagValues |-> etagValues]
Quiet == Serves({<<[name |-> "main", sha |-> "A"]>>}, {<<>>}, {})
MainFirst(s) ==
    /\ Len(s) = 2 => s[1].name = "main"
    /\ \A i \in 1..Len(s) : s[i].name = "dev" => s[i].sha = "A"
OnePr(s) == \A i \in 1..Len(s) : s[i] = [id |-> 42, title |-> "t1", user |-> "login"]
\* every branch collection; the pulls endpoint is down
BranchesApi == [r \in Repos |-> Serves(BranchLists, {}, {"e1"})]
\* every pull-request collection; the branches endpoint is down
PullsApi == [r \in Repos |-> Serves({}, PrLists, EtagValues)]
OneTitle(s) == \A i \in 1..Len(s) : s[i].title = "t1"
\* the pull-request collections over both ids next to the branch collections
\* of RepoApi, no ETag header
FirstApi ==
    [r \in Repos |->
        Serves({s \in BranchLists : MainFirst(s)},
               {s \in PrLists : OneTitle(s)}, {})]
\* both endpoints of every repository are down
DownApi == [r \in Repos |-> Serves({}, {}, {})]
\* both endpoints of one repository
RepoApi ==
    [r \in Repos |->
        Serves({s \in BranchLists : MainFirst(s)},
               {s \in PrLists : OnePr(s)}, {"e1"})]
\* r1 is an active repository, r2 a quiet one: a branch that never moves, no
\* pull request, no ETag header
SmallApi ==
    [r \in Repos |->
        IF r = "r1"
        THEN Serves({s \in BranchLists : \A i \in 1..Len(s) : s[i].name = "main"},
                    {s \in PrLists : OnePr(s)}, {})
        ELSE Quiet]

Range(s) == {s[i] : i \in 1..Len(s)}
Perms(S) == {s \in [1..Cardinality(S) -> S] : Range(s) = S}

\* ------------------------------------------------------------ map helpers
\* HashMap::insert
Insert(m, k, v) == [x \in (DOMAIN m) \cup {k} |-> IF x = k THEN v ELSE m[x]]
\* HashMap::get(..).cloned()
Get(m, k) == IF k \in DOMAIN m THEN m[k] ELSE None
EmptyMap == [x \in {} |-> None]

BranchesUrl(r) == <<"repos", r, "branches">>
PullsUrl(r) == <<"repos", r, "pulls">>
CommitKey(r, b) == <<r, b>>

\* ----------------------------------------------------------- notifications
NewCommit(r, b, sha) ==
    [type |-> "NewCommit", repo |-> r, branch |-> b, sha |-> sha,
     id |-> 0, title |-> None, author |-> "commit_author"]
NewBranch(r, b, sha) ==
    [type |-> "NewBranch", repo |-> r, branch |-> b, sha |-> sha,
     id |-> 0, title |-> None, author |-> "commit_author"]
\* notify_pr: the author is the profile name when present, else the login
PrAuthor(user) == IF user = "profile" THEN "name" ELSE "login"
NewPullRequest(r, pr) ==
    [type |-> "NewPullRequest", repo |-> r, branch |-> None, sha |-> None,
     id |-> pr.id, title |-> pr.title, author |-> PrAuthor(pr.user)]

IdleTask ==
    [pc |-> "idle", started |-> 0, etag |-> None,
     bresp |-> None, branches |-> <<>>, bidx |-> 1,
     current_branches |-> {}, commits_to_notify |-> <<>>,
     new_branches_to_notify |-> <<>>, bres |-> None,
     presp |-> None, prs |-> <<>>, pidx |-> 1,
     new_prs_to_notify |-> <<>>, pres |-> None]

DedupState ==
    [commits |-> seen_commits, branches |-> seen_branches, prs |-> seen_prs,
     etags |-> etags]

\* ------------------------------------------------------------------- Init
\* GithubNotifier::new: every map empty; main is at the top of its loop.
InitWith(orgList) ==
    /\ orgs = orgList
    /\ etags = EmptyMap
    /\ seen_commits = EmptyMap
    /\ seen_prs = EmptyMap
    /\ seen_branches = EmptyMap
    /\ locks = [m \in {"etags", "seen_commits", "seen_branches", "seen_prs"} |-> Free]
    /\ mainPc = "loop"
    /\ cycle = 0
    /\ orgIdx = 1
    /\ all_repos = <<>>
    /\ nextIdx = 1
    /\ result = None
    /\ task = [r \in Repos |-> IdleTask]
    /\ events = <<>>
    /\ calls = {}
    /\ pre = [commits |-> EmptyMap, branches |-> EmptyMap, prs |-> EmptyMap,
              etags |-> EmptyMap]
    /\ prev = [r \in Repos |-> [hasBranches |-> FALSE, branches |-> {},
                                  hasPrs |-> FALSE, prs |-> {}]]
    /\ notified = <<>>
    /\ failed = {}
    /\ baseline = [r \in Repos |-> {}]
    /\ returned = EmptyMap

Init == InitWith(OrgList)

\* ------------------------------------------------ GithubClient (the fetcher)
\* What the remote API can answer to a paged GET: a transport error, 304 (only
\* to a request that carried If-None-Match), 200 with a body and possibly an
\* ETag header, or another status.
Responses(etag, lists, etagValues) ==
    {[status |-> "transport_error", etag |-> None, items |-> <<>>],
     [status |-> "500", etag |-> None, items |-> <<>>]}
    \cup (IF etag # None
          THEN {[status |-> "304", etag |-> None, items |-> <<>>]}
          ELSE {})
    \cup [status : {"200"}, etag : etagValues \cup {None}, items : lists]

\* get_paged: 304 yields an empty Vec and the validator that was sent.
NotModified(etag) == [ok |-> TRUE, items |-> <<>>, etag |-> etag]

\* get_paged(url, etag) on a given response
get_paged(etag, resp) ==
    CASE resp.status = "transport_error" ->
             [ok |-> FALSE, items |-> <<>>, etag |-> None]
      [] resp.status = "304" -> NotModified(etag)
      [] resp.status = "200" ->
             [ok |-> TRUE, items |-> resp.items, etag |-> resp.etag]
      [] OTHER -> [ok |-> FALSE, items |-> <<>>, etag |-> None]

\* Mutant of StoreEtag: the returned Option is stored as it is.
StoreEtagAlways(m, url, new_etag) == Insert(m, url, new_etag)

\* if let Some(new_etag) = new_etag { etags.insert(url, new_etag) }
StoreEtag(m, url, new_etag) ==
    IF new_etag # None THEN Insert(m, url, new_etag) ELSE m

\* Mutant of CompareOutcome: any seen branch counts as changed (the pointers
\* are not compared).
CompareOutcomeAnyPointer(seen, key, sha) ==
    IF key \in DOMAIN seen THEN "changed" ELSE "baseline"

\* ------------------------------------------------------ engine decisions
\* Mutant of CompareOutcome: a branch without a seen pointer is treated as
\* changed.
CompareOutcomeNoBaseline(seen, key, sha) ==
    IF key \in DOMAIN seen /\ seen[key] = sha THEN "same" ELSE "changed"

\* check_branches_and_commits, lines 88-110: what one branch of the fresh
\* collection is against the seen-commit map.
CompareOutcome(seen, key, sha) ==
    IF key \in DOMAIN seen
    THEN IF seen[key] # sha THEN "changed" ELSE "same"
    ELSE "baseline"

\* Mutant of RecordCommit: the pointer of a known branch is not overwritten.
RecordCommitIfAbsent(seen, key, sha) ==
    IF key \in DOMAIN seen THEN seen ELSE Insert(seen, key, sha)

\* lines 106 and 109: seen_commits.insert(key, branch.commit.sha)
RecordCommit(seen, key, sha) == Insert(seen, key, sha)

\* Mutant of QueueCommit: the commit is queued whether or not it resolved.
QueueCommitAlways(queue, r, b, ok) ==
    Append(queue, [repo |-> r, branch |-> b.name, sha |-> b.sha])

\* lines 95-105: a resolved commit is queued for notification, a failed
\* resolution is only logged.
QueueCommit(queue, r, b, ok) ==
    IF ok THEN Append(queue, [repo |-> r, branch |-> b.name, sha |-> b.sha])
    ELSE queue

\* lines 116-119: current_branches.difference(seen_repo_branches)
NewBranches(current, seenSet) == current \ seenSet

\* Mutant of UpdateSeenBranches: the names of a first sighting are not
\* stored.
UpdateSeenBranchesKnownOnly(seen, r, current) ==
    IF r \in DOMAIN seen
    THEN Insert(seen, r, seen[r] \cup NewBranches(current, seen[r]))
    ELSE seen

\* Mutant of UpdateSeenBranches: the observed names replace the set.
UpdateSeenBranchesReplace(seen, r, current) == Insert(seen, r, current)

\* lines 115-128: the seen-branch map after the difference-and-insert
UpdateSeenBranches(seen, r, current) ==
    IF r \in DOMAIN seen
    THEN Insert(seen, r, seen[r] \cup NewBranches(current, seen[r]))
    ELSE Insert(seen, r, current)

\* Mutant of BranchesToNotify: no baseline for a repository seen for the
\* first time.
BranchesToNotifyNoBaseline(seen, r, current) ==
    IF r \in DOMAIN seen THEN NewBranches(current, seen[r]) ELSE current

\* lines 115-128: the names to notify (none for a repository's baseline)
BranchesToNotify(seen, r, current) ==
    IF r \in DOMAIN seen THEN NewBranches(current, seen[r]) ELSE {}

\* Mutant of BranchEvent: the branch is notified whether or not its head
\* commit resolved.
BranchEventAlways(r, b, sha, ok) == <<NewBranch(r, b, sha)>>

\* lines 146-155: a new branch is notified only when its head commit resolves
BranchEvent(r, b, sha, ok) == IF ok THEN <<NewBranch(r, b, sha)>> ELSE <<>>

\* Mutant of Acquire: the guard is dropped at once, the mutex is not held.
AcquireNothing(l, m, r) == l

\* lines 87 and 177: `.lock().await` returned; the guard is held by the
\* worker of r until it goes out of scope.
Acquire(l, m, r) == [l EXCEPT ![m] = r]

\* Mutant of Release: the guard outlives its scope.
ReleaseNothing(l, m) == l

\* lines 107 and 195: the guard goes out of scope at the end of the loop
\* body (seen_commits) or of the block (seen_prs).
Release(l, m) == [l EXCEPT ![m] = Free]

\* line 178: seen_prs.entry(repo).or_default()
OrDefault(seen, r) == IF r \in DOMAIN seen THEN seen ELSE Insert(seen, r, {})

\* Mutant of IsNewPr: an empty seen-PR set is taken for a baseline.
IsNewPrAfterBaseline(seenSet, pr) == seenSet # {} /\ pr.id \notin seenSet

\* line 180: !seen_repo_prs.contains(&pr.id)
IsNewPr(seenSet, pr) == pr.id \notin seenSet

\* lines 182-190: the pull request with the resolved profile, or as fetched
WithUser(pr, ok) == IF ok THEN [pr EXCEPT !.user = "profile"] ELSE pr

\* send_notification: the events handed to the sink, in order; a failed
\* spawn of notify-send is only logged and changes nothing.
send_notification(log, evs) == log \o evs

InFlight == Cardinality({r \in Repos : task[r].pc \notin {"idle", "done"}})

\* check_branches_and_commits lines 68-72: the stored validator is read and
\* the conditional fetch of the branches URL is sent.
EnterBranches(t, r) ==
    [t EXCEPT !.pc = "get_branches", !.started = @ + 1,
              !.etag = Get(etags, BranchesUrl(r))]

\* check_pull_requests lines 164-168: the same for the pulls URL.
EnterPulls(t, r) ==
    [t EXCEPT !.pc = "get_pulls", !.etag = Get(etags, PullsUrl(r))]

\* ------------------------------------------------------------ observation
\* The validators the remote API handed out: a 200 with an ETag header is the
\* only response that carries a new one.
Returned(m, url, resp) ==
    IF resp.status = "200" /\ resp.etag # None
    THEN Insert(m, url, resp.etag) ELSE m

\* The fresh collections of the cycle that ended, kept for the next one.
Remember(p, t) ==
    [hasBranches |-> p.hasBranches \/ t.bresp = "fresh",
     branches |-> IF t.bresp = "fresh" THEN Range(t.branches) ELSE p.branches,
     hasPrs |-> p.hasPrs \/ t.presp = "fresh",
     prs |-> IF t.presp = "fresh" THEN {x.id : x \in Range(t.prs)} ELSE p.prs]

IsPrEvent(e) == e.type = "NewPullRequest"

PrEventsFor(log, r, i) ==
    {k \in 1..Len(log) :
        log[k].type = "NewPullRequest" /\ log[k].repo = r /\ log[k].id = i}

FailedCalls ==
    {<<CommitKey(c.repo, c.branch), c.sha>> :
        c \in {d \in calls : d.phase = "compare" /\ ~d.ok}}

\* A new cycle (or call) begins: the observations of the last one join the
\* history, and the dedup state is snapshot.
Observe ==
    /\ events' = <<>>
    /\ calls' = {}
    /\ pre' = DedupState
    /\ prev' = [r \in Repos |-> Remember(prev[r], task[r])]
    /\ notified' = notified \o SelectSeq(events, IsPrEvent)
    /\ failed' = failed \cup FailedCalls

\* ------------------------------------------------- main loop / scheduler
\* main.rs 294-296 and check_all_repos line 35: a poll cycle starts.
CycleStart(cap) ==
    /\ mainPc = "loop"
    /\ cycle < cap
    /\ mainPc' = "orgs"
    /\ cycle' = cycle + 1
    /\ orgIdx' = 1
    /\ all_repos' = <<>>
    /\ nextIdx' = 1
    /\ result' = None
    /\ task' = [r \in Repos |-> IdleTask]
    /\ Observe
    /\ UNCHANGED <<orgs, etags, seen_commits, seen_prs, seen_branches, locks,
                   baseline, returned>>

\* check_all_repos lines 36-44: the repositories of one organization; the
\* `?` returns the error of a failed fetch from check_all_repos at once.
OrgFetched(repos, ok) ==
    IF ok
    THEN [all_repos |-> all_repos \o repos, orgIdx |-> orgIdx + 1,
          mainPc |-> IF orgIdx + 1 > Len(orgs) THEN "fanout" ELSE "orgs",
          result |-> None]
    ELSE [all_repos |-> all_repos, orgIdx |-> orgIdx,
          mainPc |-> "sleep", result |-> "err"]

FetchOrgRepos ==
    /\ mainPc = "orgs"
    /\ orgIdx <= Len(orgs)
    /\ \E resp \in Responses(None, {OrgRepos[orgs[orgIdx]]}, {}) :
         LET got == get_paged(None, resp)
             nxt == OrgFetched(got.items, got.ok)
         IN /\ all_repos' = nxt.all_repos
            /\ orgIdx' = nxt.orgIdx
            /\ mainPc' = nxt.mainPc
            /\ result' = nxt.result
    /\ UNCHANGED <<orgs, etags, seen_commits, seen_prs, seen_branches, locks,
                   cycle, nextIdx, task, events, calls, pre, prev, notified,
                   failed, baseline, returned>>

\* Mutant of HasCapacity: the fan-out is unbounded.
HasCapacityAlways(inFlight) == TRUE

\* line 47: for_each_concurrent(CONCURRENT_REQUESTS, ..) polls at most that
\* many futures at a time.
HasCapacity(inFlight) == inFlight < CONCURRENT_REQUESTS

\* check_all_repos lines 46-52: for_each_concurrent starts check_repo on the
\* next repository while fewer than CONCURRENT_REQUESTS are in flight;
\* check_repo line 59 enters check_branches_and_commits.
Dispatch ==
    /\ mainPc = "fanout"
    /\ nextIdx <= Len(all_repos)
    /\ HasCapacity(InFlight)
    /\ locks["etags"] = Free
    /\ LET r == all_repos[nextIdx]
       IN task' = [task EXCEPT ![r] = EnterBranches(@, r)]
    /\ nextIdx' = nextIdx + 1
    /\ UNCHANGED <<orgs, etags, seen_commits, seen_prs, seen_branches, locks,
                   mainPc, cycle, orgIdx, all_repos, result, events, calls,
                   pre, prev, notified, failed, baseline, returned>>

\* check_all_repos lines 53-55: every check_repo has finished; Ok(()).
FanoutDone ==
    /\ mainPc = "fanout"
    /\ nextIdx > Len(all_repos)
    /\ \A r \in Range(all_repos) : task[r].pc = "done"
    /\ mainPc' = "sleep"
    /\ result' = "ok"
    /\ UNCHANGED <<orgs, etags, seen_commits, seen_prs, seen_branches, locks,
                   cycle, orgIdx, all_repos, nextIdx, task, events, calls,
                   pre, prev, notified, failed, baseline, returned>>

\* Mutant of AfterCycle: the error of the cycle is returned from main.
AfterCycleExits(res) == IF res = "err" THEN "exit" ELSE "loop"

\* main.rs 296-299: an Err of check_all_repos is logged, not returned; after
\* the sleep main is at the top of its loop again.
AfterCycle(res) == "loop"

\* main.rs 296-299: the error, if any, is logged; the sleep ends.
SleepDone ==
    /\ mainPc = "sleep"
    /\ mainPc' = AfterCycle(result)
    /\ UNCHANGED <<orgs, etags, seen_commits, seen_prs, seen_branches, locks,
                   cycle, orgIdx, all_repos, nextIdx, result, task, events,
                   calls, pre, prev, notified, failed, baseline, returned>>

\* --------------------------------------------- check_branches_and_commits
\* Mutant of BranchCheckFailed: the error leaves check_repo as well.
BranchCheckAborts(t) ==
    [t EXCEPT !.pc = "done", !.bresp = "err", !.bres = "err"]

\* Mutant of BranchCheckFailed: the error is swallowed and the check goes on
\* with an empty collection.
BranchCheckGoesOn(t) ==
    [t EXCEPT !.pc = "compare", !.bresp = "err", !.bres = "err"]

\* line 73 and check_repo lines 59-61: the `?` returns the fetch error from
\* the branch check; check_repo logs it and goes on.
BranchCheckFailed(t) ==
    [t EXCEPT !.pc = "branches_done", !.bresp = "err", !.bres = "err"]

\* lines 70-77: the branches fetch returns.  An error leaves the check with
\* `?`.
BranchesFetched(r, api) ==
    /\ task[r].pc = "get_branches"
    /\ \E resp \in Responses(task[r].etag, api[r].branchLists, api[r].etagValues) :
         /\ returned' = Returned(returned, BranchesUrl(r), resp)
         /\ LET got == get_paged(task[r].etag, resp)
            IN IF got.ok
               THEN /\ etags' = StoreEtag(etags, BranchesUrl(r), got.etag)
                    /\ task' = [task EXCEPT ![r] =
                          [@ EXCEPT !.pc = "compare",
                                    !.bresp = IF resp.status = "304"
                                              THEN "unchanged" ELSE "fresh",
                                    !.branches = got.items]]
               ELSE /\ etags' = etags
                    /\ task' = [task EXCEPT ![r] = BranchCheckFailed(@)]
    /\ UNCHANGED <<orgs, seen_commits, seen_prs, seen_branches, locks, mainPc,
                   cycle, orgIdx, all_repos, nextIdx, result, events, calls,
                   pre, prev, notified, failed, baseline>>

\* lines 83-89 and 108-110: one branch of the collection against the
\* seen-commit map, under the seen_commits mutex; a changed pointer suspends
\* on get_commit with the mutex held.
CompareBranch(r) ==
    /\ task[r].pc = "compare"
    /\ task[r].bidx <= Len(task[r].branches)
    /\ locks["seen_commits"] = Free
    /\ LET b == task[r].branches[task[r].bidx]
           key == CommitKey(r, b.name)
           what == CompareOutcome(seen_commits, key, b.sha)
           t == [task[r] EXCEPT
                   !.current_branches = @ \cup {b.name}]
       IN /\ task' = [task EXCEPT ![r] =
                IF what = "changed"
                THEN [t EXCEPT !.pc = "get_commit"]
                ELSE [t EXCEPT !.bidx = @ + 1]]
          /\ locks' = IF what = "changed"
                      THEN Acquire(locks, "seen_commits", r)
                      ELSE locks
          /\ seen_commits' = IF what = "baseline"
                             THEN RecordCommit(seen_commits, key, b.sha)
                             ELSE seen_commits
    /\ UNCHANGED <<orgs, etags, seen_prs, seen_branches, mainPc, cycle,
                   orgIdx, all_repos, nextIdx, result, events, calls, pre,
                   prev, notified, failed, baseline, returned>>

\* lines 90-107: get_commit returns; the pointer is recorded either way and
\* the mutex guard is dropped at the end of the iteration.
CommitResolved(r) ==
    /\ task[r].pc = "get_commit"
    /\ \E ok \in BOOLEAN :
         LET b == task[r].branches[task[r].bidx]
             key == CommitKey(r, b.name)
         IN /\ task' = [task EXCEPT ![r] =
                  [@ EXCEPT !.pc = "compare",
                            !.bidx = @ + 1,
                            !.commits_to_notify = QueueCommit(@, r, b, ok)]]
            /\ seen_commits' = RecordCommit(seen_commits, key, b.sha)
            /\ calls' = calls \cup
                  {[api |-> "get_commit", phase |-> "compare", repo |-> r,
                    branch |-> b.name, sha |-> b.sha, id |-> 0, ok |-> ok]}
    /\ locks' = Release(locks, "seen_commits")
    /\ UNCHANGED <<orgs, etags, seen_prs, seen_branches, mainPc, cycle,
                   orgIdx, all_repos, nextIdx, result, events, pre, prev,
                   notified, failed, baseline, returned>>

\* lines 131-134: one notify_commit per queued commit
CommitEvents(queue) ==
    [i \in 1..Len(queue) |->
        NewCommit(queue[i].repo, queue[i].branch, queue[i].sha)]

\* lines 113-134: the difference-and-insert on the seen-branch map under its
\* mutex, then the commit notifications.  The Vec of new names is in the
\* HashSet's iteration order, which is arbitrary.
DiffBranches(r) ==
    /\ task[r].pc = "compare"
    /\ task[r].bidx > Len(task[r].branches)
    /\ locks["seen_branches"] = Free
    /\ LET cur == task[r].current_branches
           new == BranchesToNotify(seen_branches, r, cur)
       IN /\ seen_branches' = UpdateSeenBranches(seen_branches, r, cur)
          /\ baseline' = IF r \in DOMAIN seen_branches
                         THEN baseline
                         ELSE [baseline EXCEPT ![r] = cur]
          /\ \E order \in Perms(new) :
               task' = [task EXCEPT ![r] =
                  [@ EXCEPT !.pc = "new_branches",
                            !.new_branches_to_notify = order]]
    /\ events' = send_notification(events, CommitEvents(task[r].commits_to_notify))
    /\ UNCHANGED <<orgs, etags, seen_commits, seen_prs, locks, mainPc, cycle,
                   orgIdx, all_repos, nextIdx, result, calls, pre, prev,
                   notified, failed, returned>>

\* lines 137-139: branches_with_commit_info.iter().find(|b| b.name == name)
FindBranch(branches, name) ==
    LET hits == {i \in 1..Len(branches) : branches[i].name = name}
    IN IF hits = {} THEN None
       ELSE branches[CHOOSE i \in hits : \A j \in hits : i <= j].sha

\* lines 136-158: get_commit for the head of the next new branch returns.
BranchCommitResolved(r) ==
    /\ task[r].pc = "new_branches"
    /\ task[r].new_branches_to_notify # <<>>
    /\ \E ok \in BOOLEAN :
         LET name == Head(task[r].new_branches_to_notify)
             sha == FindBranch(task[r].branches, name)
         IN /\ events' = IF sha = None THEN events
                         ELSE send_notification(events, BranchEvent(r, name, sha, ok))
            /\ calls' = IF sha = None THEN calls
                        ELSE calls \cup
                  {[api |-> "get_commit", phase |-> "new_branch", repo |-> r,
                    branch |-> name, sha |-> sha, id |-> 0, ok |-> ok]}
    /\ task' = [task EXCEPT ![r] =
                  [@ EXCEPT !.new_branches_to_notify = Tail(@)]]
    /\ UNCHANGED <<orgs, etags, seen_commits, seen_prs, seen_branches, locks,
                   mainPc, cycle, orgIdx, all_repos, nextIdx, result, pre,
                   prev, notified, failed, baseline, returned>>

\* line 160: the branch check returns Ok(()).
BranchCheckReturn(r) ==
    /\ task[r].pc = "new_branches"
    /\ task[r].new_branches_to_notify = <<>>
    /\ task' = [task EXCEPT ![r] = [@ EXCEPT !.pc = "branches_done", !.bres = "ok"]]
    /\ UNCHANGED <<orgs, etags, seen_commits, seen_prs, seen_branches, locks,
                   mainPc, cycle, orgIdx, all_repos, nextIdx, result, events,
                   calls, pre, prev, notified, failed, baseline, returned>>

\* Mutant of BranchCheckFinished: check_repo does not wait for the branch
\* check to return.
BranchCheckStarted(t) == t.pc \in {"compare", "new_branches", "branches_done"}

\* check_repo line 59: `.await` on check_branches_and_commits has returned
BranchCheckFinished(t) == t.pc = "branches_done"

\* check_repo lines 59-62: whatever the branch check returned (an error is
\* logged), check_pull_requests is entered.
StartPulls(r) ==
    /\ BranchCheckFinished(task[r])
    /\ locks["etags"] = Free
    /\ task' = [task EXCEPT ![r] = EnterPulls(@, r)]
    /\ UNCHANGED <<orgs, etags, seen_commits, seen_prs, seen_branches, locks,
                   mainPc, cycle, orgIdx, all_repos, nextIdx, result, events,
                   calls, pre, prev, notified, failed, baseline, returned>>

\* ---------------------------------------------------- check_pull_requests
\* lines 166-173: the pulls fetch returns; an error leaves the check with `?`
\* and check_repo logs it.
PullsFetched(r, api) ==
    /\ task[r].pc = "get_pulls"
    /\ \E resp \in Responses(task[r].etag, api[r].prLists, api[r].etagValues) :
         /\ returned' = Returned(returned, PullsUrl(r), resp)
         /\ LET got == get_paged(task[r].etag, resp)
            IN IF got.ok
               THEN /\ etags' = StoreEtag(etags, PullsUrl(r), got.etag)
                    /\ task' = [task EXCEPT ![r] =
                          [@ EXCEPT !.pc = "lock_prs",
                                    !.presp = IF resp.status = "304"
                                              THEN "unchanged" ELSE "fresh",
                                    !.prs = got.items]]
               ELSE /\ etags' = etags
                    /\ task' = [task EXCEPT ![r] =
                          [@ EXCEPT !.pc = "done", !.presp = "err", !.pres = "err"]]
    /\ UNCHANGED <<orgs, seen_commits, seen_prs, seen_branches, locks, mainPc,
                   cycle, orgIdx, all_repos, nextIdx, result, events, calls,
                   pre, prev, notified, failed, baseline>>

\* lines 177-178: the seen_prs mutex is taken for the whole scan and the
\* repository's set is created when missing.
LockSeenPrs(r) ==
    /\ task[r].pc = "lock_prs"
    /\ locks["seen_prs"] = Free
    /\ locks' = Acquire(locks, "seen_prs", r)
    /\ seen_prs' = OrDefault(seen_prs, r)
    /\ task' = [task EXCEPT ![r] = [@ EXCEPT !.pc = "scan_prs"]]
    /\ UNCHANGED <<orgs, etags, seen_commits, seen_branches, mainPc, cycle,
                   orgIdx, all_repos, nextIdx, result, events, calls, pre,
                   prev, notified, failed, baseline, returned>>

\* lines 179-181: the next pull request of the collection; one not yet seen
\* suspends on get_user with the mutex held.
ScanPr(r) ==
    /\ task[r].pc = "scan_prs"
    /\ task[r].pidx <= Len(task[r].prs)
    /\ task' = [task EXCEPT ![r] =
          IF IsNewPr(seen_prs[r], task[r].prs[task[r].pidx])
          THEN [@ EXCEPT !.pc = "get_user"]
          ELSE [@ EXCEPT !.pidx = @ + 1]]
    /\ UNCHANGED <<orgs, etags, seen_commits, seen_prs, seen_branches, locks,
                   mainPc, cycle, orgIdx, all_repos, nextIdx, result, events,
                   calls, pre, prev, notified, failed, baseline, returned>>

\* Mutant of MarkSeen: the id is not inserted.
MarkSeenForgets(seen, r, pr) == seen

\* line 192: seen_repo_prs.insert(pr.id)
MarkSeen(seen, r, pr) == [seen EXCEPT ![r] = @ \cup {pr.id}]

\* Mutant of QueuePr: a pull request whose author did not resolve is only
\* logged.
QueuePrIfResolved(queue, pr, ok) ==
    IF ok THEN Append(queue, WithUser(pr, ok)) ELSE queue

\* lines 182-190: both arms of the match push the pull request
QueuePr(queue, pr, ok) == Append(queue, WithUser(pr, ok))

\* lines 181-193: get_user returns; the pull request is queued with the
\* profile or as fetched, and its id is marked as seen.
UserResolved(r) ==
    /\ task[r].pc = "get_user"
    /\ \E ok \in BOOLEAN :
         LET pr == task[r].prs[task[r].pidx]
         IN /\ task' = [task EXCEPT ![r] =
                  [@ EXCEPT !.pc = "scan_prs",
                            !.pidx = @ + 1,
                            !.new_prs_to_notify = QueuePr(@, pr, ok)]]
            /\ seen_prs' = MarkSeen(seen_prs, r, pr)
            /\ calls' = calls \cup
                  {[api |-> "get_user", phase |-> "pulls", repo |-> r,
                    branch |-> None, sha |-> None, id |-> pr.id, ok |-> ok]}
    /\ UNCHANGED <<orgs, etags, seen_commits, seen_branches, locks, mainPc,
                   cycle, orgIdx, all_repos, nextIdx, result, events, pre,
                   prev, notified, failed, baseline, returned>>

\* lines 197-199: one notify_pr per queued pull request
PrEvents(r, queue) == [i \in 1..Len(queue) |-> NewPullRequest(r, queue[i])]

\* lines 195-200: the mutex guard is dropped, the pull requests are notified,
\* Ok(()); check_repo returns.
NotifyPrs(r) ==
    /\ task[r].pc = "scan_prs"
    /\ task[r].pidx > Len(task[r].prs)
    /\ locks' = Release(locks, "seen_prs")
    /\ events' = send_notification(events, PrEvents(r, task[r].new_prs_to_notify))
    /\ task' = [task EXCEPT ![r] = [@ EXCEPT !.pc = "done", !.pres = "ok"]]
    /\ UNCHANGED <<orgs, etags, seen_commits, seen_prs, seen_branches, mainPc,
                   cycle, orgIdx, all_repos, nextIdx, result, calls, pre,
                   prev, notified, failed, baseline, returned>>

\* ------------------------------------------------------ the specifications
BranchCheck(r, api) ==
    \/ BranchesFetched(r, api)
    \/ CompareBranch(r)
    \/ CommitResolved(r)
    \/ DiffBranches(r)
    \/ BranchCommitResolved(r)
    \/ BranchCheckReturn(r)

PullCheck(r) ==
    \/ LockSeenPrs(r)
    \/ ScanPr(r)
    \/ UserResolved(r)
    \/ NotifyPrs(r)

\* check_all_repos and check_repo around the two checks
Scheduler(cap, api) ==
    \/ CycleStart(cap)
    \/ FetchOrgRepos
    \/ Dispatch
    \/ FanoutDone
    \/ SleepDone
    \/ \E r \in Repos : StartPulls(r) \/ PullsFetched(r, api)

\* The program: main's loop over check_all_repos, two organizations with one
\* repository each, checked concurrently.
Next ==
    \/ Scheduler(MaxCycles, SmallApi)
    \/ \E r \in Repos : BranchCheck(r, SmallApi) \/ PullCheck(r)

Spec == Init /\ [][Next]_vars

\* One organization with one repository, both streams.
NextRepo ==
    \/ Scheduler(MaxRepoCycles, RepoApi)
    \/ BranchCheck("r1", RepoApi)
    \/ PullCheck("r1")

SpecRepo == InitWith(<<"o1">>) /\ [][NextRepo]_vars

\* The branch/commit stream of one repository over every branch collection;
\* the pulls endpoint is down, so check_pull_requests ends at its fetch.
NextBranches ==
    \/ Scheduler(MaxBranchCycles, BranchesApi)
    \/ BranchCheck("r1", BranchesApi)

SpecBranches == InitWith(<<"o1">>) /\ [][NextBranches]_vars

\* The pull-request stream of one repository over every pull-request
\* collection; the branches endpoint is down, so check_branches_and_commits
\* ends at its fetch.
NextPulls ==
    \/ Scheduler(MaxPullCycles, PullsApi)
    \/ BranchesFetched("r1", PullsApi)
    \/ PullCheck("r1")

SpecPulls == InitWith(<<"o1">>) /\ [][NextPulls]_vars

\* check_repo lines 58-65 against endpoints that are down, as one step: the
\* branches fetch fails and is logged, the pulls fetch fails and is logged,
\* check_repo returns and frees its slot of the fan-out.
CheckRepoDown(r) ==
    /\ task[r].pc = "get_branches"
    /\ \A resp \in Responses(task[r].etag, DownApi[r].branchLists,
                             DownApi[r].etagValues) :
          ~get_paged(task[r].etag, resp).ok
    /\ task' = [task EXCEPT ![r] =
          [EnterPulls(BranchCheckFailed(@), r) EXCEPT
              !.pc = "done", !.presp = "err", !.pres = "err"]]
    /\ UNCHANGED <<orgs, etags, seen_commits, seen_prs, seen_branches, locks,
                   mainPc, cycle, orgIdx, all_repos, nextIdx, result, events,
                   calls, pre, prev, notified, failed, baseline, returned>>

\* The fan-out over an organization of eleven repositories whose endpoints
\* are down.  for_each_concurrent polls every future it holds and every
\* network call returns: each step that is enabled is eventually taken.
NextFanout ==
    \/ CycleStart(MaxFanoutCycles)
    \/ FetchOrgRepos
    \/ Dispatch
    \/ FanoutDone
    \/ SleepDone
    \/ \E r \in Repos : CheckRepoDown(r)

SpecFanout ==
    /\ InitWith(<<"o3">>)
    /\ [][NextFanout]_vars
    /\ WF_vars(Dispatch)
    /\ WF_vars(FanoutDone)
    /\ \A r \in Repos : WF_vars(CheckRepoDown(r))

\* The first sightings of one repository, over every pull-request
\* collection.
NextFirst ==
    \/ Scheduler(MaxFirstCycles, FirstApi)
    \/ BranchCheck("r1", FirstApi)
    \/ PullCheck("r1")

SpecFirst == InitWith(<<"o1">>) /\ [][NextFirst]_vars

\* The network calls of the checks of r: each returns when the remote side
\* answers, which it may never do (the client sets no timeout).
NetworkReturn(r, api) ==
    \/ BranchesFetched(r, api)
    \/ CommitResolved(r)
    \/ BranchCommitResolved(r)
    \/ PullsFetched(r, api)
    \/ UserResolved(r)

\* Every step of the program but the return of a network call of r2.
Progress ==
    \/ CycleStart(MaxCycles)
    \/ FetchOrgRepos
    \/ Dispatch
    \/ FanoutDone
    \/ SleepDone
    \/ NetworkReturn("r1", SmallApi)
    \/ \E r \in Repos :
          \/ StartPulls(r)
          \/ CompareBranch(r)
          \/ DiffBranches(r)
          \/ BranchCheckReturn(r)
          \/ PullCheck(r) /\ task[r].pc # "get_user"

\* The program with a runtime that runs every task that can run and a timer
\* that fires, while a call of r2 may stay unanswered for ever.
SpecStuck == Init /\ [][Next]_vars /\ WF_vars(Progress)

\* The program with a timer that fires and a main task that runs on.
SpecRetry ==
    /\ Init
    /\ [][Next]_vars
    /\ WF_vars(SleepDone)
    /\ WF_vars(CycleStart(MaxCycles))

\* The program with a runtime that runs every task that can run, a timer that
\* fires and a remote side that answers every call.
SpecLive == Init /\ [][Next]_vars /\ WF_vars(Next)

\* ================================================================ claims
\* Vocabulary of the claims, over the observation of the current cycle.
EventsFor(type, r, b) ==
    {k \in 1..Len(events) :
        events[k].type = type /\ events[k].repo = r /\ events[k].branch = b}
EventsOfRepo(r) == {k \in 1..Len(events) : events[k].repo = r}
CompareCalls(r, b) ==
    {c \in calls : c.api = "get_commit" /\ c.phase = "compare"
                   /\ c.repo = r /\ c.branch = b}
NewBranchCalls(r, b) ==
    {c \in calls : c.api = "get_commit" /\ c.phase = "new_branch"
                   /\ c.repo = r /\ c.branch = b}
CallsOfRepo(r) == {c \in calls : c.repo = r}
\* the branch check of r received a fresh collection and has sent its commit
\* notifications
CommitsNotified(r) ==
    /\ task[r].bresp = "fresh"
    /\ task[r].pc \notin {"idle", "get_branches", "compare", "get_commit"}
\* the branch check of r has returned Ok(())
BranchCheckOk(r) == task[r].bres = "ok"
Fetched(r) == {task[r].branches[i] : i \in 1..Len(task[r].branches)}
FetchedNames(r) == {b.name : b \in Fetched(r)}
SeenBefore(r, b) == CommitKey(r, b) \in DOMAIN pre.commits
Changed(r, b) ==
    /\ SeenBefore(r, b.name)
    /\ pre.commits[CommitKey(r, b.name)] # b.sha

\* C1: change detection.  When the seen-commit map holds A for repo/branch,
\* the fresh collection has that branch at B # A and get_commit for B
\* succeeds, the check emits exactly one NewCommit event for the branch, it
\* references B, and the seen-commit entry is B afterwards.
C1_ChangeDetection ==
    \A r \in Repos : CommitsNotified(r) =>
        \A b \in Fetched(r) :
            (/\ Changed(r, b)
             /\ \E c \in CompareCalls(r, b.name) : c.sha = b.sha /\ c.ok)
            => /\ Cardinality(EventsFor("NewCommit", r, b.name)) = 1
               /\ \A k \in EventsFor("NewCommit", r, b.name) : events[k].sha = b.sha
               /\ seen_commits[CommitKey(r, b.name)] = b.sha

\* C1 witness: a branch check that found a moved pointer, resolved it and
\* notified it has returned.
C1_Witness ==
    /\ BranchCheckOk("r1")
    /\ \E b \in Fetched("r1") :
          /\ Changed("r1", b)
          /\ \E c \in CompareCalls("r1", b.name) : c.sha = b.sha /\ c.ok
          /\ EventsFor("NewCommit", "r1", b.name) # {}

\* C2: baseline suppression.  A branch of the fresh collection whose key is
\* absent from the seen-commit map gets no NewCommit event and no get_commit
\* call for the comparison, and its head pointer is recorded as seen.
C2_BaselineSuppression ==
    \A r \in Repos :
        /\ task[r].pc = "get_commit" =>
              SeenBefore(r, task[r].branches[task[r].bidx].name)
        /\ \A i \in 1..Len(task[r].branches) :
              LET b == task[r].branches[i]
              IN (task[r].bresp = "fresh" /\ ~SeenBefore(r, b.name)) =>
                    /\ EventsFor("NewCommit", r, b.name) = {}
                    /\ CompareCalls(r, b.name) = {}
                    /\ task[r].bidx > i =>
                          /\ CommitKey(r, b.name) \in DOMAIN seen_commits
                          /\ seen_commits[CommitKey(r, b.name)] = b.sha

\* C2 witness: the check of an already known repository has returned after
\* meeting a branch without a seen pointer (a get_commit call was made for
\* its NewBranch notification, none for the comparison).
C2_Witness ==
    /\ BranchCheckOk("r1")
    /\ "r1" \in DOMAIN pre.branches
    /\ \E b \in Fetched("r1") :
          /\ ~SeenBefore("r1", b.name)
          /\ NewBranchCalls("r1", b.name) # {}
          /\ seen_commits[CommitKey("r1", b.name)] = b.sha

\* The part of C3 about the cycle of the failure: a moved pointer whose
\* get_commit fails gets no NewCommit event, is recorded as seen all the
\* same, and every branch of the collection is still processed.
FailureIsolated(r) ==
    CommitsNotified(r) =>
        /\ \A c \in {d \in calls : d.repo = r /\ d.phase = "compare" /\ ~d.ok} :
              /\ \A k \in EventsFor("NewCommit", r, c.branch) :
                    events[k].sha # c.sha
              /\ seen_commits[CommitKey(r, c.branch)] = c.sha
        /\ FetchedNames(r) = task[r].current_branches
        /\ \A b \in Fetched(r) :
              /\ CommitKey(r, b.name) \in DOMAIN seen_commits
              /\ seen_commits[CommitKey(r, b.name)] = b.sha

\* the comparison of this cycle has asked, or is asking, get_commit for b
Resolving(r, b) ==
    \/ \E c \in CompareCalls(r, b.name) : c.sha = b.sha
    \/ /\ task[r].pc = "get_commit"
       /\ task[r].branches[task[r].bidx] = b

\* C3 as stated: ... and in every later cycle that observes the pointer B
\* whose resolution failed, no resolution is attempted and no event is
\* emitted for it.
C3_Original ==
    \A r \in Repos :
        /\ FailureIsolated(r)
        /\ \A b \in Fetched(r) :
              <<CommitKey(r, b.name), b.sha>> \in failed =>
                 /\ ~Resolving(r, b)
                 /\ EventsFor("NewCommit", r, b.name) = {}

\* C3 as amended: commit-resolution failure isolation.  A moved pointer B
\* whose get_commit fails gets no NewCommit event, the seen entry is still
\* set to B and the other branches are processed; in a later cycle that
\* observes B while B is still the seen pointer of the branch, no resolution
\* is attempted and no event is emitted for it.
C3_FailureIsolation ==
    \A r \in Repos :
        /\ FailureIsolated(r)
        /\ \A b \in Fetched(r) :
              (/\ <<CommitKey(r, b.name), b.sha>> \in failed
               /\ SeenBefore(r, b.name)
               /\ pre.commits[CommitKey(r, b.name)] = b.sha) =>
                 /\ ~Resolving(r, b)
                 /\ EventsFor("NewCommit", r, b.name) = {}
                 /\ EventsFor("NewBranch", r, b.name) = {}

\* C3 witness: a check has returned that observed, next to another branch, a
\* pointer whose resolution failed in an earlier cycle and is still the seen
\* pointer.
C3_Witness ==
    /\ BranchCheckOk("r1")
    /\ Len(task["r1"].branches) = 2
    /\ \E b \in Fetched("r1") :
          /\ <<CommitKey("r1", b.name), b.sha>> \in failed
          /\ SeenBefore("r1", b.name)
          /\ pre.commits[CommitKey("r1", b.name)] = b.sha

\* C4: pull-request dedup.  Over all cycles, at most one NewPullRequest event
\* is emitted per repository and pull-request id, whatever the title in later
\* collections (a failed delivery changes nothing: send_notification only
\* logs it).
C4_PrDedup ==
    \A r \in Repos, i \in PrIds :
        Cardinality(PrEventsFor(notified \o events, r, i)) <= 1

\* C4 witness: a pull-request check has returned whose fresh collection held
\* a pull request notified in an earlier cycle under another title.
C4_Witness ==
    /\ task["r1"].pres = "ok"
    /\ task["r1"].presp = "fresh"
    /\ \E i \in 1..Len(task["r1"].prs), k \in 1..Len(notified) :
          /\ notified[k].repo = "r1"
          /\ notified[k].id = task["r1"].prs[i].id
          /\ notified[k].title # task["r1"].prs[i].title

\* the names of the fresh collection that the seen-branch set of r lacked
NewNames(r) == FetchedNames(r) \ pre.branches[r]
KnownRepoChecked(r) ==
    /\ BranchCheckOk(r)
    /\ task[r].bresp = "fresh"
    /\ r \in DOMAIN pre.branches

\* C6 as stated: in a branch check of a repository that has a seen-branch
\* set, each name of the fresh collection missing from the set gets exactly
\* one NewBranch event, no other name gets one, and the name is in the set
\* afterwards.
C6_Original ==
    \A r \in Repos : KnownRepoChecked(r) =>
        /\ \A n \in BranchNames :
              Cardinality(EventsFor("NewBranch", r, n)) =
                 IF n \in NewNames(r) THEN 1 ELSE 0
        /\ NewNames(r) \subseteq seen_branches[r]

\* C6 as amended: new-branch detection.  Each name of the fresh collection
\* missing from the seen-branch set gets one get_commit call for its head and
\* exactly one NewBranch event if that call succeeds, none if it fails; no
\* other name gets a NewBranch event; the name is in the set afterwards
\* either way.
C6_NewBranchDetection ==
    \A r \in Repos : KnownRepoChecked(r) =>
        /\ \A n \in BranchNames :
              /\ Cardinality(EventsFor("NewBranch", r, n)) =
                    IF n \in NewNames(r) /\ \E c \in NewBranchCalls(r, n) : c.ok
                    THEN 1 ELSE 0
              /\ Cardinality(NewBranchCalls(r, n)) =
                    IF n \in NewNames(r) THEN 1 ELSE 0
        /\ NewNames(r) \subseteq seen_branches[r]

\* C6 witness: a check has returned that met one known and one new name and
\* notified the new one.
C6_Witness ==
    /\ KnownRepoChecked("r1")
    /\ \E n \in NewNames("r1") : EventsFor("NewBranch", "r1", n) # {}
    /\ \E n \in FetchedNames("r1") : n \in pre.branches["r1"]

\* C7: new-repository branch baseline.  A branch check of a repository
\* without seen-branch entry stores the names it observed as the entry,
\* makes no get_commit call for a new branch and emits no NewBranch event;
\* no name stored by the baseline ever gets a NewBranch event.
C7_NewRepoBaseline ==
    /\ \A r \in Repos :
          (CommitsNotified(r) /\ r \notin DOMAIN pre.branches) =>
             /\ r \in DOMAIN seen_branches
             /\ seen_branches[r] = FetchedNames(r)
             /\ baseline[r] = FetchedNames(r)
             /\ \A n \in BranchNames :
                   /\ EventsFor("NewBranch", r, n) = {}
                   /\ NewBranchCalls(r, n) = {}
    /\ \A k \in 1..Len(events) :
          events[k].type = "NewBranch" =>
             events[k].branch \notin baseline[events[k].repo]
    /\ \A r \in Repos :
          r \in DOMAIN seen_branches => baseline[r] \subseteq seen_branches[r]

\* C7 witness: in a later cycle the collection holds a name of the baseline
\* and a new name, and only the new one is notified.
C7_Witness ==
    /\ KnownRepoChecked("r1")
    /\ baseline["r1"] # {}
    /\ baseline["r1"] \subseteq FetchedNames("r1")
    /\ \E n \in NewNames("r1") : EventsFor("NewBranch", "r1", n) # {}

\* the ids of the pull requests the pulls fetch of r returned
FetchedIds(r) == {task[r].prs[i].id : i \in 1..Len(task[r].prs)}
\* the cycle of r is over and both its collections were those of the last
\* cycle that fetched them
SameInput(r) ==
    /\ task[r].pc = "done"
    /\ task[r].bresp = "fresh"
    /\ task[r].presp = "fresh"
    /\ prev[r].hasBranches
    /\ prev[r].hasPrs
    /\ Fetched(r) = prev[r].branches
    /\ FetchedIds(r) = prev[r].prs

\* C5: idempotence under unchanged input.  A cycle whose branch collection
\* (names and pointers) and pull-request ids are those of the previous cycle
\* emits no event and leaves the seen-commit map, the seen-branch sets and
\* the seen-PR sets as they were.
C5_Idempotence ==
    \A r \in Repos : SameInput(r) =>
        /\ EventsOfRepo(r) = {}
        /\ seen_commits = pre.commits
        /\ seen_branches = pre.branches
        /\ seen_prs = pre.prs

\* C5 witness: such a cycle over a collection of two branches and one pull
\* request.
C5_Witness ==
    /\ SameInput("r1")
    /\ Cardinality(Fetched("r1")) = 2
    /\ FetchedIds("r1") # {}

BranchPhase(r) ==
    task[r].pc \in {"compare", "get_commit", "new_branches", "branches_done"}

\* C8: not-modified short-circuit.  A branch check answered 304 makes no
\* get_commit call, emits no event and leaves the dedup state and the
\* validators as they were; a pull-request check answered 304 makes no
\* get_user call, emits no NewPullRequest event and leaves the seen-PR sets
\* and its validator as they were; stored sets are not emptied.
C8_NotModified ==
    \A r \in Repos :
        /\ task[r].bresp = "unchanged" =>
              /\ {c \in CallsOfRepo(r) : c.api = "get_commit"} = {}
              /\ {k \in EventsOfRepo(r) : events[k].type # "NewPullRequest"} = {}
              /\ seen_commits = pre.commits
              /\ seen_branches = pre.branches
              /\ Get(etags, BranchesUrl(r)) = Get(pre.etags, BranchesUrl(r))
              /\ BranchPhase(r) => DedupState = pre
        /\ task[r].presp = "unchanged" =>
              /\ {c \in CallsOfRepo(r) : c.api = "get_user"} = {}
              /\ {k \in EventsOfRepo(r) : events[k].type = "NewPullRequest"} = {}
              /\ seen_prs = pre.prs
              /\ Get(etags, PullsUrl(r)) = Get(pre.etags, PullsUrl(r))
        /\ (task[r].bresp = "unchanged" /\ task[r].presp = "unchanged") =>
              DedupState = pre

\* C8 witness: both fetches of a repository with two seen branches and a seen
\* pull request were answered 304 and the cycle is over.
C8_Witness ==
    /\ task["r1"].pc = "done"
    /\ task["r1"].bresp = "unchanged"
    /\ task["r1"].presp = "unchanged"
    /\ "r1" \in DOMAIN seen_branches
    /\ Cardinality(seen_branches["r1"]) = 2
    /\ "r1" \in DOMAIN seen_prs
    /\ seen_prs["r1"] # {}

\* C9 as stated: organization isolation.  When the cycle is over, the
\* repositories of every organization whose repository list was fetched have
\* been checked, whatever happened to the fetch of another organization.
C9_OrgIsolation ==
    mainPc = "sleep" =>
        \A i \in 1..Len(orgs) :
            i < orgIdx =>
               \A r \in Range(OrgRepos[orgs[i]]) : task[r].pc = "done"

\* C10: repository and sub-check isolation.  A cycle that enumerated every
\* organization ends with Ok(()) and with both checks of every repository
\* having returned, whichever of them failed; check_all_repos returns an
\* error only before any repository is checked.
C10_CheckIsolation ==
    /\ (mainPc = "sleep" /\ orgIdx > Len(orgs)) =>
          /\ result = "ok"
          /\ \A r \in Range(all_repos) :
                /\ task[r].pc = "done"
                /\ task[r].bres \in {"ok", "err"}
                /\ task[r].pres \in {"ok", "err"}
    /\ \A r \in Repos : task[r].pc = "done" => task[r].pres \in {"ok", "err"}
    /\ result = "err" => \A r \in Repos : task[r].pc = "idle"

\* C10 witness: the cycle is over; the branch check of r2 failed and its
\* pull-request check returned, the pull-request check of r1 failed after its
\* branch check returned.
C10_Witness ==
    /\ mainPc = "sleep"
    /\ result = "ok"
    /\ task["r2"].bres = "err"
    /\ task["r2"].pres = "ok"
    /\ task["r1"].bres = "ok"
    /\ task["r1"].pres = "err"

\* every repository of the list has been checked exactly once
AllCheckedOnce ==
    \A r \in Range(all_repos) : task[r].started = 1 /\ task[r].pc = "done"

\* C11: concurrency ceiling.  At every moment at most CONCURRENT_REQUESTS
\* repositories have a check_repo that started and has not finished,
\* whatever the length of the list; no repository is started twice in a
\* cycle, and once the fan-out has begun every repository of the list is
\* eventually checked, exactly once, and check_all_repos returns Ok(()).
C11_ConcurrencyCeiling ==
    /\ [](InFlight <= CONCURRENT_REQUESTS)
    /\ [](\A r \in Repos : task[r].started <= 1)
    /\ [](result = "ok" => AllCheckedOnce)
    /\ (mainPc = "fanout") ~> (result = "ok" /\ AllCheckedOnce)

\* C11 witness: the ceiling is reached while a repository of the list waits
\* to be started.
C11_Witness ==
    /\ InFlight = CONCURRENT_REQUESTS
    /\ nextIdx <= Len(all_repos)
    /\ Len(all_repos) > CONCURRENT_REQUESTS

\* C12: a stuck fetch does not block later cycles.  Whatever call of r2 never
\* returns, every cycle is followed by the start of the next one (up to the
\* last cycle of the model).
C12_StuckFetch ==
    \A n \in 1..(MaxCycles - 1) : (cycle = n) ~> (cycle = n + 1)

\* C13: indefinite retry.  main never leaves its loop; from the return of
\* check_all_repos, with or without error, to the start of the next cycle
\* the dedup state is kept; and every cycle that ends is followed by the
\* start of a further cycle (up to the last cycle of the model).
C13_IndefiniteRetry ==
    /\ [](mainPc \in {"loop", "orgs", "fanout", "sleep"})
    /\ [][(mainPc = "sleep" \/ mainPc = "loop") => DedupState' = DedupState]_vars
    /\ [](result = "err" => DedupState = pre)
    /\ \A n \in 1..(MaxCycles - 1) :
          (mainPc = "sleep" /\ cycle = n) ~> (mainPc = "orgs" /\ cycle = n + 1)

\* C13 witness: a cycle has ended with a cycle-level error and a further
\* cycle is due.
C13_Witness ==
    /\ mainPc = "sleep"
    /\ result = "err"
    /\ cycle < MaxCycles

\* r is between its read of a seen pointer and its write (on get_commit)
InCompare(r) == task[r].pc = "get_commit"
\* r is inside its scan of the seen-PR set
InScan(r) == task[r].pc \in {"scan_prs", "get_user"}
\* a step in which the worker of s reads the seen-commit map
ReadsCommits(s) ==
    \/ task'[s].bidx # task[s].bidx
    \/ (task[s].pc # "get_commit" /\ task'[s].pc = "get_commit")

\* C14: atomic read-compare-write.  While a worker is between the read of a
\* seen pointer and the write of the new one, no step of another worker
\* reads or writes the seen-commit map; while a worker scans the seen-PR set
\* of its repository no other worker enters its own scan or writes the map;
\* the two mutexes are held by the worker that is in those sections, and the
\* seen-branch mutex is never held across a step.
C14_AtomicReadCompareWrite ==
    /\ [][\A r \in Repos : (InCompare(r) /\ task'[r] = task[r]) =>
             /\ seen_commits' = seen_commits
             /\ \A s \in Repos \ {r} : ~ReadsCommits(s)]_vars
    /\ [][\A r \in Repos : (InScan(r) /\ task'[r] = task[r]) =>
             /\ seen_prs' = seen_prs
             /\ \A s \in Repos \ {r} : ~InScan(s)']_vars
    /\ [](\A r \in Repos :
             /\ InCompare(r) => locks["seen_commits"] = r
             /\ InScan(r) => locks["seen_prs"] = r)
    /\ [](\A r, s \in Repos :
             (r # s) => ~(InCompare(r) /\ InCompare(s)) /\ ~(InScan(r) /\ InScan(s)))
    /\ [](locks["seen_branches"] = Free)

\* C14 witness: the worker of r1 is between read and write while the worker
\* of r2 has a branch left to compare, and must wait.
C14_Witness ==
    /\ InCompare("r1")
    /\ task["r2"].pc = "compare"
    /\ task["r2"].bidx <= Len(task["r2"].branches)

\* C15: dedup-state mutation never spans a suspension point.  No worker that
\* waits for get_paged, get_commit or get_user holds the mutex of the
\* seen-commit map, the seen-PR map, the seen-branch map or the validator
\* table.
C15_NoLockAcrossSuspension ==
    \A r \in Repos :
        task[r].pc \in {"get_branches", "get_commit", "get_pulls", "get_user"}
            => \A m \in DOMAIN locks : locks[m] # r

\* C16: a failed conditional fetch changes nothing.  A branch check whose
\* fetch failed makes no get_commit call, emits no event and leaves the
\* seen-commit map, the seen-branch sets and its validator as they were at
\* the start of the cycle; a pull-request check whose fetch failed makes no
\* get_user call, emits no event and leaves the seen-PR sets and its
\* validator as they were; when both failed the whole dedup state and the
\* validator table are those of the start of the cycle.
C16_FailedFetchChangesNothing ==
    \A r \in Repos :
        /\ task[r].bresp = "err" =>
              /\ {c \in CallsOfRepo(r) : c.api = "get_commit"} = {}
              /\ {k \in EventsOfRepo(r) : events[k].type # "NewPullRequest"} = {}
              /\ task[r].pc \in {"branches_done", "get_pulls", "lock_prs",
                                 "scan_prs", "get_user", "done"}
              /\ seen_commits = pre.commits
              /\ seen_branches = pre.branches
              /\ Get(etags, BranchesUrl(r)) = Get(pre.etags, BranchesUrl(r))
        /\ task[r].presp = "err" =>
              /\ {c \in CallsOfRepo(r) : c.api = "get_user"} = {}
              /\ {k \in EventsOfRepo(r) : events[k].type = "NewPullRequest"} = {}
              /\ seen_prs = pre.prs
              /\ Get(etags, PullsUrl(r)) = Get(pre.etags, PullsUrl(r))
        /\ (task[r].bresp = "err" /\ task[r].presp = "err") =>
              DedupState = pre /\ EventsOfRepo(r) = {}

\* C16 witness: both conditional fetches of a repository with stored
\* validators, two seen branches and a seen pull request have failed.
C16_Witness ==
    /\ task["r1"].pc = "done"
    /\ task["r1"].bresp = "err"
    /\ task["r1"].presp = "err"
    /\ Get(pre.etags, BranchesUrl("r1")) # None
    /\ Get(pre.etags, PullsUrl("r1")) # None
    /\ "r1" \in DOMAIN seen_branches
    /\ Cardinality(seen_branches["r1"]) = 2
    /\ "r1" \in DOMAIN seen_prs
    /\ seen_prs["r1"] # {}

\* C17: validator table freshness.  For every URL the table holds exactly
\* the validator of the most recent response to a fetch of that URL that
\* carried one: a response without one (a 200 without ETag header, a 304, a
\* failure) leaves the entry as it is, no entry is removed and none is
\* written without a validator.
C17_ValidatorFreshness ==
    /\ [](etags = returned)
    /\ [](\A u \in DOMAIN etags : etags[u] # None)
    /\ [][DOMAIN etags \subseteq DOMAIN etags']_vars

\* C17 witness: a fetch has replaced the stored validator of the pulls URL by
\* the one of its response.
C17_Witness ==
    /\ task["r1"].presp = "fresh"
    /\ Get(pre.etags, PullsUrl("r1")) = "e1"
    /\ Get(etags, PullsUrl("r1")) = "e2"

\* every set of m is kept, and only grows, in n
Grows(m, n) ==
    \A r \in DOMAIN m : r \in DOMAIN n /\ m[r] \subseteq n[r]
\* b of the fresh collection was absent from the last fresh collection but is
\* known from before, with the pointer it has now
Recreated(r, b) ==
    /\ task[r].bresp = "fresh"
    /\ b \in Fetched(r)
    /\ prev[r].hasBranches
    /\ b.name \notin {x.name : x \in prev[r].branches}
    /\ r \in DOMAIN pre.branches
    /\ b.name \in pre.branches[r]
    /\ Get(pre.commits, CommitKey(r, b.name)) = b.sha

\* C18: monotonic dedup state.  In every step each seen-branch set and each
\* seen-PR set only grows and no key leaves the seen-commit map, also when a
\* branch or a pull request is missing from a fresh collection; so a branch
\* deleted and recreated with the same name and head pointer gets no event
\* and no resolution call.
C18_MonotonicDedupState ==
    /\ [][/\ Grows(seen_branches, seen_branches')
          /\ Grows(seen_prs, seen_prs')
          /\ DOMAIN seen_commits \subseteq DOMAIN seen_commits']_vars
    /\ [](\A r \in Repos : \A b \in Branch :
             Recreated(r, b) =>
                /\ EventsFor("NewCommit", r, b.name) = {}
                /\ EventsFor("NewBranch", r, b.name) = {}
                /\ CompareCalls(r, b.name) = {}
                /\ NewBranchCalls(r, b.name) = {})

\* C18 witness: a check has returned whose collection held again, with its
\* old pointer, a branch that the collection before lacked.
C18_Witness ==
    /\ task["r1"].pc = "done"
    /\ task["r1"].bres = "ok"
    /\ \E b \in Branch : Recreated("r1", b)

\* the pull-request check of r returned Ok(()) on the first fresh collection
\* received for r
FirstPrCheck(r) ==
    /\ task[r].pres = "ok"
    /\ task[r].presp = "fresh"
    /\ r \notin DOMAIN pre.prs
\* the branch check of r returned Ok(()) on the first fresh collection
FirstBranchCheck(r) ==
    /\ task[r].bres = "ok"
    /\ task[r].bresp = "fresh"
    /\ r \notin DOMAIN pre.branches

\* C19: no pull-request baseline.  The first pull-request check of a
\* repository that receives a fresh collection emits exactly one
\* NewPullRequest event for every pull request of the collection and marks
\* them all as seen, while the first branch check of the repository emits no
\* NewCommit and no NewBranch event.
C19_NoPrBaseline ==
    \A r \in Repos :
        /\ FirstPrCheck(r) =>
              /\ \A i \in PrIds :
                    Cardinality(PrEventsFor(events, r, i)) =
                       IF i \in FetchedIds(r) THEN 1 ELSE 0
              /\ seen_prs[r] = FetchedIds(r)
        /\ FirstBranchCheck(r) =>
              {k \in EventsOfRepo(r) : events[k].type # "NewPullRequest"} = {}

\* C19 witness: the first cycle of a repository with two branches and two
\* open pull requests is over: two NewPullRequest events and nothing else.
C19_Witness ==
    /\ FirstPrCheck("r1")
    /\ FirstBranchCheck("r1")
    /\ Cardinality(Fetched("r1")) = 2
    /\ FetchedIds("r1") = PrIds
    /\ Len(events) = 2

\* the get_user calls of the pull-request check of r that failed
FailedUserCalls(r) ==
    {c \in CallsOfRepo(r) : c.api = "get_user" /\ ~c.ok}
\* the pull-request check of r returned after a fresh collection
PrCheckOk(r) == task[r].pres = "ok" /\ task[r].presp = "fresh"
WasSeen(r, i) == r \in DOMAIN pre.prs /\ i \in pre.prs[r]

\* C20: author-resolution failure is non-fatal.  A failed get_user never
\* makes the pull-request check fail; when the check has returned, every
\* pull request whose author did not resolve is marked as seen and has
\* exactly one NewPullRequest event, with the raw login as author, and every
\* other pull request of the collection was processed as well: marked as
\* seen, with one event if it was not seen before.
C20_AuthorFailureNonFatal ==
    \A r \in Repos :
        /\ FailedUserCalls(r) # {} => task[r].pres # "err"
        /\ PrCheckOk(r) =>
              /\ \A c \in FailedUserCalls(r) :
                    /\ c.id \in seen_prs[r]
                    /\ Cardinality(PrEventsFor(events, r, c.id)) = 1
                    /\ \A k \in PrEventsFor(events, r, c.id) :
                          events[k].author = "login"
              /\ \A i \in FetchedIds(r) :
                    /\ i \in seen_prs[r]
                    /\ Cardinality(PrEventsFor(events, r, i)) =
                          IF WasSeen(r, i) THEN 0 ELSE 1

\* C20 witness: in a collection of two new pull requests the author of the
\* first did not resolve and the author of the second did.
C20_Witness ==
    /\ PrCheckOk("r1")
    /\ Len(task["r1"].prs) = 2
    /\ \E c \in FailedUserCalls("r1") : c.id = task["r1"].prs[1].id
    /\ \E k \in 1..Len(events) :
          events[k].id = task["r1"].prs[2].id /\ events[k].author = "name"

\* the branch names of r that have a key in the seen-commit map
CommitNames(r) == {b \in BranchNames : CommitKey(r, b) \in DOMAIN seen_commits}
\* no branch check of r is in progress
BranchCheckIdle(r) ==
    task[r].pc \in {"idle", "branches_done", "get_pulls", "lock_prs",
                    "scan_prs", "get_user", "done"}

\* C21: key consistency between the two branch maps.  Whenever no branch
\* check of a repository is in progress, the branch names that have a key in
\* the seen-commit map are the names of the repository's seen-branch set
\* (none without an entry); and no branch gets both a NewBranch and a
\* NewCommit event in one cycle.
C21_KeyConsistency ==
    \A r \in Repos :
        /\ BranchCheckIdle(r) =>
              CommitNames(r) = IF r \in DOMAIN seen_branches
                               THEN seen_branches[r] ELSE {}
        /\ \A n \in BranchNames :
              EventsFor("NewBranch", r, n) = {} \/ EventsFor("NewCommit", r, n) = {}

\* C21 witness: a check has returned that notified a new branch and a new
\* commit on another branch.
C21_Witness ==
    /\ task["r1"].bres = "ok"
    /\ \E n \in BranchNames : EventsFor("NewBranch", "r1", n) # {}
    /\ \E n \in BranchNames : EventsFor("NewCommit", "r1", n) # {}
    /\ CommitNames("r1") = BranchNames

\* the mutex the worker of r waits for at its next step, if any
WaitsFor(r) ==
    CASE task[r].pc = "compare" /\ task[r].bidx <= Len(task[r].branches)
             -> "seen_commits"
      [] task[r].pc = "compare" /\ task[r].bidx > Len(task[r].branches)
             -> "seen_branches"
      [] task[r].pc = "branches_done" -> "etags"
      [] task[r].pc = "lock_prs" -> "seen_prs"
      [] OTHER -> None
Holds(r) == {m \in DOMAIN locks : locks[m] = r}

\* C22: deadlock freedom.  A worker about to lock a mutex holds none, no
\* worker holds two, and, every network call returning, every fan-out ends:
\* each check_repo finishes and check_all_repos returns Ok(()).
C22_DeadlockFreedom ==
    /\ [](\A r \in Repos : WaitsFor(r) # None => Holds(r) = {})
    /\ [](\A r \in Repos : Cardinality(Holds(r)) <= 1)
    /\ (mainPc = "fanout") ~>
          (mainPc = "sleep" /\ result = "ok"
             /\ \A r \in Range(all_repos) : task[r].pc = "done")

\* C22 witness: the worker of r2 waits for the seen-PR mutex, which the
\* worker of r1 holds while it waits for get_user.
C22_Witness ==
    /\ task["r1"].pc = "get_user"
    /\ Holds("r1") = {"seen_prs"}
    /\ WaitsFor("r2") = "seen_prs"

\* the pull-request check of r has started
InPullCheck(r) ==
    task[r].pc \in {"get_pulls", "lock_prs", "scan_prs", "get_user"}
        \/ task[r].pres # None
\* in the events of the cycle, one of type a of r comes before one of type b
Precedes(r, a, b) ==
    \E j, k \in EventsOfRepo(r) :
        j < k /\ events[j].type = a /\ events[k].type = b

\* C23: order inside one repository.  The pull-request check of a repository
\* starts only after its branch check has returned, with Ok or with an
\* error, and the branch check takes no step afterwards; among the events of
\* a repository in a cycle no NewPullRequest comes before a NewCommit or a
\* NewBranch, and no NewBranch before a NewCommit.
C23_OrderInsideRepository ==
    /\ [](\A r \in Repos :
             InPullCheck(r) =>
                /\ task[r].bres \in {"ok", "err"}
                /\ task[r].new_branches_to_notify = <<>>)
    /\ [][\A r \in Repos :
             (InPullCheck(r) /\ cycle' = cycle) =>
                /\ task'[r].bres = task[r].bres
                /\ task'[r].bidx = task[r].bidx
                /\ task'[r].current_branches = task[r].current_branches]_vars
    /\ [](\A r \in Repos :
             /\ ~Precedes(r, "NewPullRequest", "NewCommit")
             /\ ~Precedes(r, "NewPullRequest", "NewBranch")
             /\ ~Precedes(r, "NewBranch", "NewCommit"))

\* C23 witness: a cycle of one repository has emitted a NewCommit, then a
\* NewBranch, then a NewPullRequest event.
C23_Witness ==
    /\ task["r1"].pc = "done"
    /\ Precedes("r1", "NewCommit", "NewBranch")
    /\ Precedes("r1", "NewBranch", "NewPullRequest")
====
